---------------------------- MODULE Spec2Model ----------------------------
(***************************************************************************)
(* The client actions of grr/client/client_actions/admin.py, run by the    *)
(* single dispatch thread of the client worker, together with the reply    *)
(* channel, the configuration and the statistics buffers they act on.      *)
(***************************************************************************)
EXTENDS Integers, Sequences, FiniteSets, TLC

(***************************************************************************)
(* Bounds of the model.                                                    *)
(***************************************************************************)
MaxRequests == 2      \* requests dispatched in one behaviour
MaxUpdates == 2       \* of them, requests that read or update the configuration
MaxStatsRequests == 1 \* requests dispatched while the sampler is watched
MaxClock == 12        \* the clock stops ticking here
MaxStatsClock == 2    \* the clock stops here while the sampler is watched
MaxSamples == 2       \* length of a StatsCollector buffer
MaxBusy == 2          \* largest BusyHang argument

(***************************************************************************)
(* Program constants.                                                      *)
(***************************************************************************)
LOW_PRIORITY == 0
MEDIUM_PRIORITY == 1
HIGH_PRIORITY == 2
KILL_GRACE == 10           \* self.grr_worker.Sleep(10)
KILL_EXIT_CODE == 242      \* os._exit(242)
BUSY_DEFAULT == 5          \* arg.integer or 5
MICRO == 1000000           \* long(timestamp * 1e6)
BOOT_TIME == 3             \* psutil.BOOT_TIME, fixed for the process lifetime

WELL_KNOWN_STARTUP == "W:Startup"
WELL_KNOWN_STATS == "W:Stats"

UPDATEABLE_FIELDS ==
  <<"compression", "foreman_check_frequency", "location", "max_post_size",
    "max_out_queue", "poll_min", "poll_max", "poll_slew", "rss_max", "verbose">>

(***************************************************************************)
(* Inputs.                                                                 *)
(***************************************************************************)
\* the requests in flight differ in session and in request id
Requests ==
  { [session_id |-> "S1", request_id |-> 7],
    [session_id |-> "S2", request_id |-> 8] }
\* configuration fields a request may name: two of the whitelist, one not
ConfigFieldNames == {"poll_min", "location", "camode"}
\* UpdateConfig replies nothing: one requester is as good as another
ConfigRequests == {[session_id |-> "S1", request_id |-> 7]}
ConfigValues == {5, 6}
TtlValues == {<<>>, <<1>>, <<30>>}      \* <<>> is ttl=None
EchoArgs == {"ping"}
Exceptions == {"none", "IOError", "OSError", "ValueError"}
OtherPriorities == {LOW_PRIORITY, MEDIUM_PRIORITY, HIGH_PRIORITY}
BusyArgs == (-1) .. MaxBusy
\* what psutil and stats.STATS report of the process
Environments ==
  { [proc |-> [rss |-> 10, vms |-> 20, memory_percent |-> 1, create_time |-> 2],
     counters |-> [received |-> 0, sent |-> 0]],
    [proc |-> [rss |-> 11, vms |-> 22, memory_percent |-> 2, create_time |-> 2],
     counters |-> [received |-> 4, sent |-> 9]] }
SampleValues == {1}

VARIABLES
  pc,             \* position of the dispatch thread
  cur,            \* the request being run, or the last one run
  emitted,        \* the messages the action of cur has enqueued
  status,         \* what the dispatcher saw of cur: "none", "running", "ok", "error"
  nreq,           \* requests dispatched so far
  FLAGS,          \* conf.FLAGS, the live configuration
  disk,           \* the persisted configuration
  parser_calls,   \* calls of conf.PARSER.UpdateConfig made by cur
  logged,         \* warnings logged by cur
  out_queue,      \* the reply channel: pending messages in enqueue order
  sent,           \* messages drained to the transport, in drain order
  next_seq,       \* enqueue counter
  jumps,          \* <<h, l>>: h was enqueued above every pending message, l one of them
  clock,          \* time.time()
  end,            \* BusyHang's end, Kill's wake-up time
  exit_code,      \* <<>> while the process lives
  cpu_samples,    \* stats_collector.cpu_samples
  io_samples,     \* stats_collector.io_samples
  proc,           \* psutil's view of the process
  STATS,          \* stats.STATS counters
  response,       \* GetClientStats.Run's local
  idx,            \* position of the list iterator in GetClientStats.Run
  cpu_seen,       \* contents the cpu buffer had during the stats action of cur
  io_seen         \* contents the io buffer had during the stats action of cur

vars == <<pc, cur, emitted, status, nreq, FLAGS, disk, parser_calls, logged,
          out_queue, sent, next_seq, jumps, clock, end, exit_code,
          cpu_samples, io_samples, proc, STATS, response, idx, cpu_seen, io_seen>>

configVars == <<FLAGS, disk, parser_calls, logged>>
queueVars == <<out_queue, sent, next_seq, jumps>>
statsVars == <<cpu_samples, io_samples, proc, STATS>>
readVars == <<response, idx, cpu_seen, io_seen>>

NoRequest == [name |-> "none", session_id |-> "", request_id |-> 0]
NoResponse == [kind |-> "none"]

Init ==
  /\ pc = "idle"
  /\ cur = NoRequest
  /\ emitted = <<>>
  /\ status = "none"
  /\ nreq = 0
  /\ FLAGS = [f \in ConfigFieldNames |-> 0]
  /\ disk = [f \in ConfigFieldNames |-> 0]
  /\ parser_calls = <<>>
  /\ logged = <<>>
  /\ out_queue = <<>>
  /\ sent = <<>>
  /\ next_seq = 1
  /\ jumps = {}
  /\ clock = 0
  /\ end = 0
  /\ exit_code = <<>>
  /\ cpu_samples = <<>>
  /\ io_samples = <<>>
  /\ \E e \in Environments : proc = e.proc /\ STATS = e.counters
  /\ response = NoResponse
  /\ idx = 1
  /\ cpu_seen = {}
  /\ io_seen = {}

\* the dispatcher takes a request only when no action runs
CanDispatch == pc = "idle"

\* fewer than n requests were dispatched
Budget(n) == nreq < n

(***************************************************************************)
(* The reply channel.                                                      *)
(***************************************************************************)
\* GRRClientWorker.SendReply: the message as enqueued
WorkerMessage(payload, session_id, response_id, request_id, priority, message_type, require_fastpoll, ttl) ==
  [ seq |-> 0,
    by |-> "",
    session_id |-> session_id,
    request_id |-> request_id,
    response_id |-> response_id,
    priority |-> priority,
    message_type |-> message_type,
    require_fastpoll |-> require_fastpoll,
    ttl |-> ttl,
    payload |-> payload ]

\* ActionPlugin.SendReply: a reply addressed to the request that is running
ActionReply(req, response_id, payload, message_type, priority) ==
  WorkerMessage(payload, req.session_id, response_id, req.request_id, priority,
                message_type, TRUE, <<>>)

\* the pairs a message enqueued on q adds to jumps
JumpsOf(m, q) ==
  IF \A i \in 1..Len(q) : m.priority > q[i].priority
  THEN {<<m.seq, q[i].seq>> : i \in 1..Len(q)}
  ELSE {}

\* enqueue m as the next message of the running action name, after those in before
Emit(name, m, before) ==
  LET mm == [m EXCEPT !.seq = next_seq, !.by = name]
  IN /\ out_queue' = Append(out_queue, mm)
     /\ emitted' = Append(before, mm)
     /\ next_seq' = next_seq + 1
     /\ jumps' = jumps \cup JumpsOf(mm, out_queue)

\* the place in q of the message the transport takes next
DrainIndex(q) ==
  CHOOSE i \in 1..Len(q) :
    /\ \A j \in 1..Len(q) : q[j].priority <= q[i].priority
    /\ \A j \in 1..(i - 1) : q[j].priority < q[i].priority

RemoveAt(q, i) == SubSeq(q, 1, i - 1) \o SubSeq(q, i + 1, Len(q))

Drain ==
  /\ pc # "dead"
  /\ out_queue # <<>>
  /\ LET i == DrainIndex(out_queue)
     IN /\ sent' = Append(sent, out_queue[i])
        /\ out_queue' = RemoveAt(out_queue, i)
  /\ UNCHANGED <<pc, cur, emitted, status, nreq, configVars, next_seq, jumps,
                 clock, end, exit_code, statsVars, readVars>>

\* a reply of an action that is not one of admin.py's
OtherTraffic(r, p) ==
  /\ CanDispatch
  /\ cur' = [name |-> "Other", session_id |-> r.session_id,
             request_id |-> r.request_id]
  /\ Emit("Other", ActionReply(r, 1, [kind |-> "DataBlob"], "MESSAGE", p), <<>>)
  /\ status' = "ok"
  /\ nreq' = nreq + 1
  /\ UNCHANGED <<pc, configVars, sent, clock, end, exit_code, statsVars, readVars>>

\* time passes, up to limit
TickTo(limit) ==
  /\ pc # "dead"
  /\ clock < limit
  /\ clock' = clock + 1
  /\ UNCHANGED <<pc, cur, emitted, status, nreq, configVars, queueVars, end,
                 exit_code, statsVars, readVars>>

Tick == TickTo(MaxClock)

(***************************************************************************)
(* Echo                                                                    *)
(***************************************************************************)
EchoRun(r, arg) ==
  /\ CanDispatch
  /\ cur' = [name |-> "Echo", session_id |-> r.session_id,
             request_id |-> r.request_id, arg |-> arg]
  /\ Emit("Echo", ActionReply(r, 1, [kind |-> "PrintStr", data |-> arg], "MESSAGE",
                      MEDIUM_PRIORITY), <<>>)
  /\ status' = "ok"
  /\ nreq' = nreq + 1
  /\ UNCHANGED <<pc, configVars, sent, clock, end, exit_code, statsVars, readVars>>

(***************************************************************************)
(* GetConfig and UpdateConfig                                              *)
(***************************************************************************)
GetConfigRun(r) ==
  /\ CanDispatch
  /\ cur' = [name |-> "GetConfig", session_id |-> r.session_id,
             request_id |-> r.request_id]
  /\ Emit("GetConfig", ActionReply(r, 1, [kind |-> "GRRConfig", config |-> FLAGS], "MESSAGE",
                      MEDIUM_PRIORITY), <<>>)
  /\ status' = "ok"
  /\ nreq' = nreq + 1
  /\ UNCHANGED <<pc, configVars, sent, clock, end, exit_code, statsVars, readVars>>

\* arg.ListFields(): the fields set in the request, each once
ListFieldsValues ==
  { s \in UNION { [1..n -> [name : ConfigFieldNames, value : ConfigValues]] :
                  n \in 0..Cardinality(ConfigFieldNames) } :
      \A i, j \in 1..Len(s) : s[i].name = s[j].name => i = j }

\* field.name in self.UPDATEABLE_FIELDS
Updateable(name) ==
  \E i \in 1..Len(UPDATEABLE_FIELDS) : UPDATEABLE_FIELDS[i] = name

\* a whitelist test that lets every name through
UpdateableAny(name) == TRUE

\* the whitelist test of the loop
FieldAllowed(name) == Updateable(name)

\* one turn of the loop over the fields
LoopBody(st, field) ==
  IF FieldAllowed(field.name)
  THEN [st EXCEPT !.flags = [@ EXCEPT ![field.name] = field.value],
                  !.updated_keys = Append(@, field.name)]
  ELSE [st EXCEPT !.disallowed_fields = Append(@, field.name)]

RECURSIVE RunLoop(_, _)
RunLoop(st, fields) ==
  IF fields = <<>> THEN st
  ELSE RunLoop(LoopBody(st, Head(fields)), Tail(fields))

\* logging.warning(...) when a field was refused
Warnings(st) ==
  IF st.disallowed_fields # <<>> THEN <<st.disallowed_fields>> ELSE <<>>

\* persisting only when a key was updated
PersistIfUpdated(st) ==
  IF st.updated_keys # <<>>
  THEN <<[keys |-> st.updated_keys, flags |-> st.flags]>>
  ELSE <<>>

\* conf.PARSER.UpdateConfig(updated_keys), with the configuration it finds
PersistCalls(st) == <<[keys |-> st.updated_keys, flags |-> st.flags]>>

\* except IOError only
CaughtIOError(exc) == exc = "IOError"

\* except (IOError, OSError)
Caught(exc) == exc \in {"IOError", "OSError"}

\* the configuration file after PARSER.UpdateConfig(keys) ended with exc
Persisted(old, flags, calls, exc) ==
  IF exc = "none" /\ calls # <<>>
  THEN [f \in DOMAIN old |->
          IF \E i \in 1..Len(calls[1].keys) : calls[1].keys[i] = f
          THEN flags[f] ELSE old[f]]
  ELSE old

UpdateConfigRun(r, arg, exc) ==
  /\ CanDispatch
  /\ LET st == RunLoop([flags |-> FLAGS, updated_keys |-> <<>>,
                        disallowed_fields |-> <<>>], arg)
         calls == PersistCalls(st)
     IN /\ FLAGS' = st.flags
        /\ logged' = Warnings(st)
        /\ parser_calls' = calls
        /\ disk' = Persisted(disk, st.flags, calls, exc)
        /\ status' = IF exc = "none" \/ calls = <<>> \/ Caught(exc)
                     THEN "ok" ELSE "error"
  /\ cur' = [name |-> "UpdateConfig", session_id |-> r.session_id,
             request_id |-> r.request_id, arg |-> arg, exc |-> exc,
             old_flags |-> FLAGS]
  /\ emitted' = <<>>
  /\ nreq' = nreq + 1
  /\ UNCHANGED <<pc, queueVars, clock, end, exit_code, statsVars, readVars>>

(***************************************************************************)
(* Kill                                                                    *)
(***************************************************************************)
\* a status reply sent at the default priority
KillPriorityDefault == MEDIUM_PRIORITY

\* priority=jobs_pb2.GrrMessage.HIGH_PRIORITY + 1
KillPriority == HIGH_PRIORITY + 1

\* the reply Kill queues up before it sleeps
KillReply(r) ==
  ActionReply(r, 1, [kind |-> "GrrStatus", status |-> "OK"], "STATUS",
              KillPriority)

\* dying without waiting
SleepSkipped(now, wake) == TRUE

\* self.grr_worker.Sleep(10) has returned
SleepOver(now, wake) == now >= wake

Seqs(q) == {q[i].seq : i \in 1..Len(q)}

KillRun(r) ==
  /\ CanDispatch
  /\ cur' = [name |-> "Kill", session_id |-> r.session_id,
             request_id |-> r.request_id, start |-> clock,
             pending |-> Seqs(out_queue)]
  /\ Emit("Kill", KillReply(r), <<>>)
  /\ end' = clock + KILL_GRACE
  /\ pc' = "kill_sleep"
  /\ status' = "running"
  /\ nreq' = nreq + 1
  /\ UNCHANGED <<configVars, sent, clock, exit_code, statsVars, readVars>>

\* os._exit(242): nothing of the process runs after it
KillDie ==
  /\ pc = "kill_sleep"
  /\ SleepOver(clock, end)
  /\ exit_code' = <<KILL_EXIT_CODE>>
  /\ pc' = "dead"
  /\ UNCHANGED <<cur, emitted, status, nreq, configVars, queueVars, clock, end,
                 statsVars, readVars>>

(***************************************************************************)
(* BusyHang                                                                *)
(***************************************************************************)
\* arg.integer taken as it is
DurationAsGiven(n) == n

\* arg.integer or 5
Duration(n) == IF n # 0 THEN n ELSE BUSY_DEFAULT

\* while time.time() < end
Spinning(now, e) == now < e

BusyHangRun(r, n) ==
  /\ CanDispatch
  /\ clock + Duration(n) <= MaxClock
  /\ cur' = [name |-> "BusyHang", session_id |-> r.session_id,
             request_id |-> r.request_id, arg |-> n, start |-> clock]
  /\ end' = clock + Duration(n)
  /\ pc' = "busy"
  /\ emitted' = <<>>
  /\ status' = "running"
  /\ nreq' = nreq + 1
  /\ UNCHANGED <<configVars, queueVars, clock, exit_code, statsVars, readVars>>

\* the loop test fails and Run returns
BusyHangReturn ==
  /\ pc = "busy"
  /\ ~Spinning(clock, end)
  /\ pc' = "idle"
  /\ status' = "ok"
  /\ UNCHANGED <<cur, emitted, nreq, configVars, queueVars, clock, end,
                 exit_code, statsVars, readVars>>

(***************************************************************************)
(* SendStartupInfo                                                         *)
(***************************************************************************)
ClientInformation ==
  [client_name |-> "GRR_CLIENT_NAME", client_version |-> "GRR_CLIENT_VERSION",
   build_time |-> "GRR_CLIENT_BUILDTIME"]

StartupInfo ==
  [kind |-> "StartupInfo", client_info |-> ClientInformation,
   boot_time |-> BOOT_TIME * MICRO]

\* a startup message sent without its ttl
StartupMessageNoTtl(r, ttl) ==
  WorkerMessage(StartupInfo, WELL_KNOWN_STARTUP, 0, 0, LOW_PRIORITY, "MESSAGE",
                FALSE, <<>>)

\* the message SendStartupInfo.Run hands to grr_worker.SendReply
StartupMessage(r, ttl) ==
  WorkerMessage(StartupInfo, WELL_KNOWN_STARTUP, 0, 0, LOW_PRIORITY, "MESSAGE",
                FALSE, ttl)

SendStartupInfoRun(r, ttl) ==
  /\ CanDispatch
  /\ cur' = [name |-> "SendStartupInfo", session_id |-> r.session_id,
             request_id |-> r.request_id, ttl |-> ttl]
  /\ Emit("SendStartupInfo", StartupMessage(r, ttl), <<>>)
  /\ status' = "ok"
  /\ nreq' = nreq + 1
  /\ UNCHANGED <<pc, configVars, sent, clock, end, exit_code, statsVars, readVars>>

(***************************************************************************)
(* The StatsCollector's sampler                                            *)
(***************************************************************************)
\* the oldest sample leaves a buffer that grew past its length
Evict(buf) == IF Len(buf) > MaxSamples THEN Tail(buf) ELSE buf

Reading == pc \in {"stats_cpu", "stats_io"}

\* the sampler is periodic: it has not sampled into buf in this period yet
Due(buf) == IF buf = <<>> THEN TRUE ELSE buf[Len(buf)][1] < clock

SampleCpu(v) ==
  /\ pc # "dead"
  /\ Due(cpu_samples)
  /\ cpu_samples' = Evict(Append(cpu_samples, <<clock, v, v + 10, v + 20>>))
  /\ cpu_seen' = IF Reading THEN cpu_seen \cup {cpu_samples'} ELSE cpu_seen
  /\ UNCHANGED <<pc, cur, emitted, status, nreq, configVars, queueVars, clock,
                 end, exit_code, io_samples, proc, STATS, response, idx, io_seen>>

SampleIo(v) ==
  /\ pc # "dead"
  /\ Due(io_samples)
  /\ io_samples' = Evict(Append(io_samples, <<clock, v, v + 10>>))
  /\ io_seen' = IF Reading THEN io_seen \cup {io_samples'} ELSE io_seen
  /\ UNCHANGED <<pc, cur, emitted, status, nreq, configVars, queueVars, clock,
                 end, exit_code, cpu_samples, proc, STATS, response, idx, cpu_seen>>

StatsTick == TickTo(MaxStatsClock)

(***************************************************************************)
(* GetClientStats and GetClientStatsAuto                                   *)
(***************************************************************************)
\* the response before the sample loops
ClientStats(p, counters) ==
  [kind |-> "ClientStats",
   RSS_size |-> p.rss,
   VMS_size |-> p.vms,
   memory_percent |-> p.memory_percent,
   bytes_received |-> counters.received,
   bytes_sent |-> counters.sent,
   create_time |-> p.create_time * MICRO,
   boot_time |-> BOOT_TIME * MICRO,
   cpu_samples |-> <<>>,
   io_samples |-> <<>>]

\* one turn of the loop over cpu_samples
CpuSample(s) ==
  [timestamp |-> s[1] * MICRO, user_cpu_time |-> s[2],
   system_cpu_time |-> s[3], cpu_percent |-> s[4]]

\* one turn of the loop over io_samples
IoSample(s) ==
  [timestamp |-> s[1] * MICRO, read_bytes |-> s[2], write_bytes |-> s[3]]

\* GetClientStats.Send
ReplySend(r, resp) == ActionReply(r, 1, resp, "MESSAGE", MEDIUM_PRIORITY)

\* an Auto message addressed to the request
AutoSendToRequest(r, resp) ==
  WorkerMessage(resp, r.session_id, 0, r.request_id, LOW_PRIORITY, "MESSAGE",
                FALSE, <<>>)

\* an Auto message that leaves the sample history out
AutoSendNoHistory(r, resp) ==
  WorkerMessage([resp EXCEPT !.cpu_samples = <<>>, !.io_samples = <<>>],
                WELL_KNOWN_STATS, 0, 0, LOW_PRIORITY, "MESSAGE", FALSE, <<>>)

\* GetClientStatsAuto.Send
AutoSend(r, resp) ==
  WorkerMessage(resp, WELL_KNOWN_STATS, 0, 0, LOW_PRIORITY, "MESSAGE", FALSE, <<>>)

StatsNames == {"GetClientStats", "GetClientStatsAuto"}

\* self.Send(response), by the class of the action
Send(r, resp) ==
  IF r.name = "GetClientStatsAuto" THEN AutoSend(r, resp) ELSE ReplySend(r, resp)

StatsBegin(r, name) ==
  /\ CanDispatch
  /\ cur' = [name |-> name, session_id |-> r.session_id,
             request_id |-> r.request_id]
  /\ response' = ClientStats(proc, STATS)
  /\ idx' = 1
  /\ cpu_seen' = {cpu_samples}
  /\ io_seen' = {io_samples}
  /\ pc' = "stats_cpu"
  /\ emitted' = <<>>
  /\ status' = "running"
  /\ nreq' = nreq + 1
  /\ UNCHANGED <<configVars, queueVars, clock, end, exit_code, statsVars>>

\* the iterator over cpu_samples yields the element at its position
StatsCpuNext ==
  /\ pc = "stats_cpu"
  /\ idx <= Len(cpu_samples)
  /\ response' = [response EXCEPT
                    !.cpu_samples = Append(@, CpuSample(cpu_samples[idx]))]
  /\ idx' = idx + 1
  /\ UNCHANGED <<pc, cur, emitted, status, nreq, configVars, queueVars, clock,
                 end, exit_code, statsVars, cpu_seen, io_seen>>

\* the iterator finds its position past the end of cpu_samples
StatsCpuEnd ==
  /\ pc = "stats_cpu"
  /\ idx > Len(cpu_samples)
  /\ pc' = "stats_io"
  /\ idx' = 1
  /\ UNCHANGED <<cur, emitted, status, nreq, configVars, queueVars, clock, end,
                 exit_code, statsVars, response, cpu_seen, io_seen>>

StatsIoNext ==
  /\ pc = "stats_io"
  /\ idx <= Len(io_samples)
  /\ response' = [response EXCEPT
                    !.io_samples = Append(@, IoSample(io_samples[idx]))]
  /\ idx' = idx + 1
  /\ UNCHANGED <<pc, cur, emitted, status, nreq, configVars, queueVars, clock,
                 end, exit_code, statsVars, cpu_seen, io_seen>>

\* the io loop ends and the response is sent
StatsSend ==
  /\ pc = "stats_io"
  /\ idx > Len(io_samples)
  /\ Emit(cur.name, Send(cur, response), <<>>)
  /\ pc' = "idle"
  /\ status' = "ok"
  /\ UNCHANGED <<cur, nreq, configVars, sent, clock, end, exit_code, statsVars,
                 readVars>>

(***************************************************************************)
(* Specifications                                                          *)
(***************************************************************************)
NextConfig ==
  \/ Budget(MaxUpdates) /\ \E r \in ConfigRequests, arg \in ListFieldsValues, exc \in Exceptions :
        UpdateConfigRun(r, arg, exc)
  \/ Budget(MaxUpdates) /\ \E r \in ConfigRequests : GetConfigRun(r)
  \/ Drain

SpecConfig == Init /\ [][NextConfig]_vars

\* the reply channel under Kill, startup reports and other traffic
NextReply ==
  \/ Budget(MaxRequests) /\ \E r \in Requests, arg \in EchoArgs : EchoRun(r, arg)
  \/ Budget(MaxRequests) /\ \E r \in Requests, p \in OtherPriorities : OtherTraffic(r, p)
  \/ Budget(MaxRequests) /\ \E r \in Requests, ttl \in TtlValues : SendStartupInfoRun(r, ttl)
  \/ Budget(MaxRequests) /\ \E r \in Requests : KillRun(r)
  \/ KillDie
  \/ Tick
  \/ Drain

SpecReply == Init /\ [][NextReply]_vars

\* the stats actions beside the sampler
NextStats ==
  \/ Budget(MaxStatsRequests) /\ \E r \in Requests, name \in StatsNames : StatsBegin(r, name)
  \/ StatsCpuNext
  \/ StatsCpuEnd
  \/ StatsIoNext
  \/ StatsSend
  \/ \E v \in SampleValues : SampleCpu(v)
  \/ \E v \in SampleValues : SampleIo(v)
  \/ StatsTick
  \/ Budget(MaxStatsRequests) /\ \E r \in Requests, ttl \in TtlValues : SendStartupInfoRun(r, ttl)

SpecStats == Init /\ [][NextStats]_vars

\* BusyHang on the dispatch thread, under a clock that keeps advancing
NextBusy ==
  \/ Budget(MaxRequests) /\ \E r \in Requests, n \in BusyArgs : BusyHangRun(r, n)
  \/ BusyHangReturn
  \/ Budget(MaxRequests) /\ \E r \in Requests, arg \in EchoArgs : EchoRun(r, arg)
  \/ Tick
  \/ Drain

SpecBusy ==
  Init /\ [][NextBusy]_vars /\ WF_vars(Tick) /\ WF_vars(BusyHangReturn)

Next ==
  \/ Budget(MaxRequests) /\ \E r \in Requests, arg \in EchoArgs : EchoRun(r, arg)
  \/ Budget(MaxRequests) /\ \E r \in Requests, p \in OtherPriorities : OtherTraffic(r, p)
  \/ Budget(MaxRequests) /\ \E r \in Requests : GetConfigRun(r)
  \/ Budget(MaxRequests) /\ \E r \in Requests, arg \in ListFieldsValues, exc \in Exceptions :
        UpdateConfigRun(r, arg, exc)
  \/ Budget(MaxRequests) /\ \E r \in Requests, ttl \in TtlValues : SendStartupInfoRun(r, ttl)
  \/ Budget(MaxRequests) /\ \E r \in Requests : KillRun(r)
  \/ KillDie
  \/ Budget(MaxRequests) /\ \E r \in Requests, n \in BusyArgs : BusyHangRun(r, n)
  \/ BusyHangReturn
  \/ Budget(MaxRequests) /\ \E r \in Requests, name \in StatsNames : StatsBegin(r, name)
  \/ StatsCpuNext
  \/ StatsCpuEnd
  \/ StatsIoNext
  \/ StatsSend
  \/ \E v \in SampleValues : SampleCpu(v)
  \/ \E v \in SampleValues : SampleIo(v)
  \/ Tick
  \/ Drain

Spec == Init /\ [][Next]_vars

(***************************************************************************)
(* Properties                                                              *)
(***************************************************************************)
Whitelist == {UPDATEABLE_FIELDS[i] : i \in 1..Len(UPDATEABLE_FIELDS)}
Whitelisted(name) == name \in Whitelist
UpdateDone == cur.name = "UpdateConfig"
ArgNames == [i \in 1..Len(cur.arg) |-> cur.arg[i].name]
InChannel == out_queue \o sent

\* C1: after UpdateConfig.Run, every requested field of the whitelist holds the
\* value the request gave and every other requested field holds the value it
\* had before, wherever the refused fields stand in the request.
C1_WhitelistApplied ==
  UpdateDone =>
    \A i \in 1..Len(cur.arg) :
      IF Whitelisted(cur.arg[i].name)
      THEN FLAGS[cur.arg[i].name] = cur.arg[i].value
      ELSE FLAGS[cur.arg[i].name] = cur.old_flags[cur.arg[i].name]

\* a refused field came first and the whitelisted fields after it were applied
C1_Witness ==
  /\ UpdateDone
  /\ Len(cur.arg) = 3
  /\ cur.arg[1].name = "camode"
  /\ cur.arg[2].name = "poll_min"
  /\ cur.arg[2].value = 5
  /\ cur.old_flags["poll_min"] = 6
  /\ FLAGS["poll_min"] = 5
  /\ FLAGS["camode"] = 0

\* what holds of Kill from its first step on
C2_KillState ==
  cur.name = "Kill" =>
    /\ pc \in {"kill_sleep", "dead"}
    /\ Len(emitted) = 1
    /\ emitted[1].message_type = "STATUS"
    /\ emitted[1].priority = HIGH_PRIORITY + 1
    /\ (pc = "kill_sleep" => exit_code = <<>>)
    /\ (pc = "dead" => exit_code = <<242>> /\ clock >= cur.start + 10)

\* C2: Kill enqueues exactly one reply, a STATUS at HIGH_PRIORITY + 1, before
\* the grace wait; the process ends with code 242 only after the wait; Kill
\* never returns to the dispatcher and enqueues nothing after the reply.
C2_KillOnce ==
  /\ []C2_KillState
  /\ [][cur.name = "Kill" =>
          /\ cur' = cur
          /\ emitted' = emitted
          /\ next_seq' = next_seq
          /\ pc' # "idle"]_vars

\* the process died after its reply had left for the transport
C2_Witness ==
  /\ cur.name = "Kill"
  /\ pc = "dead"
  /\ exit_code = <<242>>
  /\ \E i \in 1..Len(sent) : sent[i].seq = emitted[1].seq

\* C3: every message of SendStartupInfo and of GetClientStatsAuto has request
\* id 0, response id 0 and the action's reserved session id, whatever request
\* set the action off.
C3_WellKnownAddressing ==
  \A i \in 1..Len(InChannel) :
    LET m == InChannel[i]
    IN /\ m.by = "SendStartupInfo" =>
            m.request_id = 0 /\ m.response_id = 0 /\ m.session_id = "W:Startup"
       /\ m.by = "GetClientStatsAuto" =>
            m.request_id = 0 /\ m.response_id = 0 /\ m.session_id = "W:Stats"

\* a stats report went out for a request of session S2, request 8
C3_Witness ==
  /\ cur.name = "GetClientStatsAuto"
  /\ cur.session_id = "S2"
  /\ cur.request_id = 8
  /\ \E i \in 1..Len(out_queue) :
        out_queue[i].by = "GetClientStatsAuto" /\ out_queue[i].session_id = "W:Stats"

\* C4: SendStartupInfo emits exactly one message, to the "startup" session,
\* with the ttl it was given, and the channel keeps that ttl; none goes to the
\* requester's session.
C4_StartupTtl ==
  cur.name = "SendStartupInfo" =>
    /\ Len(emitted) = 1
    /\ emitted[1].session_id = "W:Startup"
    /\ emitted[1].session_id # cur.session_id
    /\ emitted[1].ttl = cur.ttl
    /\ \A i \in 1..Len(InChannel) :
          InChannel[i].seq = emitted[1].seq => InChannel[i].ttl = cur.ttl

\* the startup message with ttl 30 reached the transport
C4_Witness ==
  /\ cur.name = "SendStartupInfo"
  /\ cur.ttl = <<30>>
  /\ \E i \in 1..Len(sent) :
        /\ sent[i].seq = emitted[1].seq
        /\ sent[i].ttl = <<30>>
        /\ sent[i].session_id = "W:Startup"

\* C5: when persisting fails with IOError or OSError the dispatcher sees a
\* normal completion and every whitelisted field keeps its new value.
C5_PersistFailureSwallowed ==
  (UpdateDone /\ cur.exc \in {"IOError", "OSError"}) =>
    /\ status = "ok"
    /\ \A i \in 1..Len(cur.arg) :
          Whitelisted(cur.arg[i].name) => FLAGS[cur.arg[i].name] = cur.arg[i].value

\* an OSError left the new value in memory and the old one on disk
C5_Witness ==
  /\ UpdateDone
  /\ cur.exc = "OSError"
  /\ status = "ok"
  /\ cur.arg # <<>>
  /\ cur.arg[1].name = "poll_min"
  /\ FLAGS["poll_min"] = cur.arg[1].value
  /\ cur.old_flags["poll_min"] # cur.arg[1].value
  /\ disk["poll_min"] = cur.old_flags["poll_min"]

\* C6: a message enqueued above every pending message is drained before each
\* of them; so is Kill's status reply before the messages it found pending.
C6_QueueJump ==
  /\ \A pair \in jumps :
        \A j \in 1..Len(sent) :
          sent[j].seq = pair[2] => \E i \in 1..(j - 1) : sent[i].seq = pair[1]
  /\ cur.name = "Kill" =>
        \A j \in 1..Len(sent) :
          sent[j].seq \in cur.pending =>
            \E i \in 1..(j - 1) : sent[i].seq = emitted[1].seq

\* Kill's reply overtook a pending message, and both were drained
C6_Witness ==
  /\ cur.name = "Kill"
  /\ \E i, j \in 1..Len(sent) :
        /\ i < j
        /\ sent[i].by = "Kill"
        /\ sent[j].priority = HIGH_PRIORITY
        /\ <<sent[i].seq, sent[j].seq>> \in jumps
        /\ sent[j].seq < sent[i].seq

StatsDone == cur.name \in StatsNames /\ pc = "idle"

\* C7: GetClientStatsAuto emits exactly one message whose payload is the
\* response GetClientStats.Run assembled, the payload GetClientStats emits; it
\* goes to the "stats" session at LOW_PRIORITY without fastpoll, not to the
\* requester.
C7_AutoDiffersInAddressing ==
  StatsDone =>
    /\ Len(emitted) = 1
    /\ emitted[1].payload = response
    /\ response.RSS_size = proc.rss
    /\ response.bytes_sent = STATS.sent
    /\ cur.name = "GetClientStatsAuto" =>
          /\ emitted[1].payload = ReplySend(cur, response).payload
          /\ emitted[1].session_id = "W:Stats"
          /\ emitted[1].session_id # cur.session_id
          /\ emitted[1].priority = LOW_PRIORITY
          /\ emitted[1].require_fastpoll = FALSE
    /\ cur.name = "GetClientStats" =>
          /\ emitted[1].session_id = cur.session_id
          /\ emitted[1].request_id = cur.request_id

\* an Auto report with sample history went out
C7_Witness ==
  /\ StatsDone
  /\ cur.name = "GetClientStatsAuto"
  /\ Len(emitted) = 1
  /\ Len(emitted[1].payload.cpu_samples) = 2
  /\ Len(emitted[1].payload.io_samples) = 1

CpuReply(buf) ==
  [i \in 1..Len(buf) |->
     [timestamp |-> buf[i][1] * 1000000, user_cpu_time |-> buf[i][2],
      system_cpu_time |-> buf[i][3], cpu_percent |-> buf[i][4]]]

IoReply(buf) ==
  [i \in 1..Len(buf) |->
     [timestamp |-> buf[i][1] * 1000000, read_bytes |-> buf[i][2],
      write_bytes |-> buf[i][3]]]

\* C8: the cpu samples, and the io samples, of a stats reply are the contents
\* of the buffer at one instant of the action, also when the sampler appends
\* and evicts during the read.
C8_ConsistentSnapshot ==
  StatsDone =>
    /\ \E buf \in cpu_seen : response.cpu_samples = CpuReply(buf)
    /\ \E buf \in io_seen : response.io_samples = IoReply(buf)

\* C9: BusyHang keeps the dispatch thread until the clock has reached
\* start + n (start + 5 for n = 0), emits nothing, then returns to the
\* dispatcher; under a clock that advances it always returns.
C9_BusyHang ==
  /\ [][pc = "busy" =>
          /\ cur' = cur
          /\ nreq' = nreq
          /\ emitted' = <<>>
          /\ next_seq' = next_seq
          /\ pc' # "busy" =>
                /\ pc' = "idle"
                /\ status' = "ok"
                /\ clock >= cur.start + (IF cur.arg = 0 THEN 5 ELSE cur.arg)]_vars
  /\ (pc = "busy" ~> pc = "idle")

\* BusyHang with argument 2 returned when 2 units had passed
C9_Witness ==
  /\ cur.name = "BusyHang"
  /\ cur.arg = 2
  /\ pc = "idle"
  /\ status = "ok"
  /\ clock = cur.start + 2
  /\ emitted = <<>>

\* C10: UpdateConfig calls the parser exactly once, after the loop, with the
\* names of the applied fields in request order and no refused name, also
\* when nothing was applied.
C10_PersistOnce ==
  UpdateDone =>
    /\ Len(parser_calls) = 1
    /\ parser_calls[1].keys = SelectSeq(ArgNames, Whitelisted)
    /\ \A i \in 1..Len(cur.arg) :
          Whitelisted(cur.arg[i].name) =>
            parser_calls[1].flags[cur.arg[i].name] = cur.arg[i].value

\* only a refused field was requested: the parser was called with no key
C10_Witness ==
  /\ UpdateDone
  /\ Len(cur.arg) = 1
  /\ cur.arg[1].name = "camode"
  /\ parser_calls # <<>>
  /\ parser_calls[1].keys = <<>>
  /\ logged = <<<<"camode">>>>

=============================================================================
